---- MODULE Spec2Model ----
(***************************************************************************)
(* A model of line_stamp_tool: the sticker rendering pipeline of           *)
(* src/line_stamp_tool/generator.py (text wrapping, shrink-to-fit layout,  *)
(* composition geometry, export, and the generate_all run).                *)
(*                                                                         *)
(* Strings are sequences of one-character strings.  Ratios are held in     *)
(* hundredths, and the pixel values drawn are ones for which the float     *)
(* products the code truncates with int() equal the exact products.        *)
(***************************************************************************)
EXTENDS Integers, Sequences, FiniteSets, TLC

\* ---------------------------------------------------------------- bounds
\* longest text drawn for the wrapping and layout machines
MaxLen == 3

\* ------------------------------------------------------- program constants
\* generator.py:205  min_size = max(20, base_font_size // 4)
MinFontFloor == 20
\* generator.py:205  base_font_size // 4
FloorDivisor == 4
\* generator.py:212  size -= 4
ShrinkStep == 4
\* generator.py:88  int(available_height * 0.35), in hundredths
MinTextPercent == 35
\* generator.py:371  int(min(base_size) * 0.55), in hundredths
IllustrationPercent == 55
\* generator.py:372  max(base_size, 200)
IllustrationFloor == 200
\* generator.py:311  abs(src_ratio - target_ratio) <= 0.01, in hundredths
RatioTolerance == 1
\* generator.py:267  max(48, int(base_size * 0.42))
SetIconMinFont == 48
\* generator.py:267  int(base_size * 0.42), in hundredths
SetIconFontPercent == 42
\* generator.py:270  int(base_size * 0.2), in hundredths
SetIconMarginPercent == 20
\* generator.py:273  line spacing 1.1, in hundredths
SetIconSpacing == 110

\* ---------------------------------------------------------------- helpers
Max(a, b) == IF a >= b THEN a ELSE b
Min(a, b) == IF a <= b THEN a ELSE b
Abs(n) == IF n >= 0 THEN n ELSE -n

\* Python int(n / d) for d > 0: truncation toward zero
Trunc(n, d) == IF n >= 0 THEN n \div d ELSE -((-n) \div d)

\* math.ceil(n / d) for n >= 0, d > 0
CeilDiv(n, d) == (n + d - 1) \div d

NL == "\n"

\* all texts over alphabet A of length at most n
TextsUpTo(A, n) == UNION {[1..k -> A] : k \in 0..n}

\* ------------------------------------------------------------ font metrics
\* Horizontal advance of a character in tenths of an em (a proportional
\* face: narrow and wide glyphs).
Advance(ch) ==
    CASE ch = "i" -> 3
      [] ch = "H" -> 7
      [] ch = "h" -> 5
      [] ch = " " -> 3
      [] ch = "-" -> 4
      [] ch = "_" -> 5
      [] ch = "!" -> 3
      [] OTHER    -> 6

RECURSIVE SumAdvance(_)
SumAdvance(s) == IF s = <<>> THEN 0 ELSE Advance(Head(s)) + SumAdvance(Tail(s))

\* _get_font: a scalable face at the requested size when a font file is
\* configured, else ImageFont.load_default(), whose metrics ignore the size.
GetFont(fontKind, size) == [kind |-> fontKind, size |-> size]

\* _text_length: int(math.ceil(textlength(text, font))); the built-in
\* bitmap font has one fixed advance
TextLength(text, font) ==
    IF font.kind = "truetype"
    THEN CeilDiv(SumAdvance(text) * font.size, 10)
    ELSE 6 * Len(text)

\* _line_height: ascent + descent
LineHeight(font) ==
    IF font.kind = "truetype" THEN (font.size * 12) \div 10 ELSE 11

\* ------------------------------------------------------------- _wrap_text
\* One iteration of the character loop (generator.py:247-258), measuring the
\* string `measured` built from the current line and the character.
WrapCharWith(st, ch, font, max_width, measured) ==
    IF ch = NL
    THEN [lines |-> Append(st.lines, st.current), current |-> <<>>]
    ELSE LET tentative == Append(st.current, ch)
             length    == TextLength(measured, font)
         IN  IF length <= max_width \/ st.current = <<>>
             THEN [lines |-> st.lines, current |-> tentative]
             ELSE [lines |-> Append(st.lines, st.current), current |-> <<ch>>]

\* a plausible slip: the width test measures the line before the character
\* is added
WrapCharStale(st, ch, font, max_width) ==
    WrapCharWith(st, ch, font, max_width, st.current)

\* a plausible slip: the character that overflows the line is not carried
\* over to the next one
WrapCharDropped(st, ch, font, max_width) ==
    IF ch = NL
    THEN [lines |-> Append(st.lines, st.current), current |-> <<>>]
    ELSE IF TextLength(Append(st.current, ch), font) <= max_width \/ st.current = <<>>
    THEN [lines |-> st.lines, current |-> Append(st.current, ch)]
    ELSE [lines |-> Append(st.lines, st.current), current |-> <<>>]

WrapChar(st, ch, font, max_width) ==
    WrapCharWith(st, ch, font, max_width, Append(st.current, ch))

\* a plausible slip: the pending line is flushed only into an empty result
WrapFlushOnlyFirst(st) ==
    IF st.lines = <<>> THEN Append(st.lines, st.current) ELSE st.lines

\* the flush after the loop (generator.py:259-261)
WrapFlush(st) ==
    IF st.current # <<>> \/ st.lines = <<>>
    THEN Append(st.lines, st.current)
    ELSE st.lines

RECURSIVE WrapScan(_, _, _, _)
WrapScan(text, st, font, max_width) ==
    IF text = <<>> THEN st
    ELSE WrapScan(Tail(text), WrapChar(st, Head(text), font, max_width), font, max_width)

\* the whole function, as _layout_text calls it
WrapText(text, font, max_width) ==
    IF text = <<>> THEN << <<>> >>
    ELSE WrapFlush(WrapScan(text, [lines |-> <<>>, current |-> <<>>], font, max_width))

\* ---------------------------------------------------------- _measure_block
\* _block_height (generator.py:232-235)
BlockHeight(line_count, line_height, line_gap) ==
    IF line_count = 0 THEN 0
    ELSE line_count * line_height + (line_count - 1) * line_gap

RECURSIVE MaxLineWidth(_, _)
MaxLineWidth(lines, font) ==
    IF lines = <<>> THEN 0
    ELSE Max(TextLength(Head(lines), font), MaxLineWidth(Tail(lines), font))

\* line_gap = max(0, floor(line_height * max(0.0, line_spacing - 1.0))), the
\* spacing given in hundredths
LineGap(line_height, spacing) ==
    Max(0, (line_height * Max(0, spacing - 100)) \div 100)

NoLayout == [size |-> 0]

\* ------------------------------------------------------------ _layout_text
\* a plausible slip: the floor of 20 is dropped
MinSizeNoFloor(base_font_size) == base_font_size \div FloorDivisor

\* generator.py:205
MinSize(base_font_size) == Max(MinFontFloor, base_font_size \div FloorDivisor)

\* one layout attempt at a size: font, wrap, measure (generator.py:207-209
\* and 214-216)
LayoutAt(text, size, fontKind, max_width, spacing) ==
    LET font  == GetFont(fontKind, size)
        lines == WrapText(text, font, max_width)
        lh    == LineHeight(font)
        gap   == LineGap(lh, spacing)
    IN  [size |-> size, font |-> font, lines |-> lines,
         line_height |-> lh, line_gap |-> gap,
         block_height |-> BlockHeight(Len(lines), lh, gap),
         max_line_width |-> MaxLineWidth(lines, font)]

\* a plausible slip: only the height is tested
FitsHeightOnly(lay, max_width, max_height) == lay.block_height <= max_height

\* generator.py:210
Fits(lay, max_width, max_height) ==
    lay.block_height <= max_height /\ lay.max_line_width <= max_width

\* the loop of generator.py:206-217 from `size` on
RECURSIVE ShrinkSearch(_, _, _, _, _, _, _)
ShrinkSearch(text, size, min_size, fontKind, max_width, max_height, spacing) ==
    IF size >= min_size
    THEN LET lay == LayoutAt(text, size, fontKind, max_width, spacing)
         IN  IF Fits(lay, max_width, max_height) THEN lay
             ELSE ShrinkSearch(text, size - ShrinkStep, min_size, fontKind,
                               max_width, max_height, spacing)
    ELSE LayoutAt(text, min_size, fontKind, max_width, spacing)

\* the whole function; a font file that cannot be parsed makes the first
\* _get_font raise (generator.py:343-347)
LayoutText(text, max_width, max_height, base_font_size, spacing, fontKind) ==
    IF fontKind = "corrupt" THEN [status |-> "font_error"]
    ELSE [status |-> "ok",
          layout |-> ShrinkSearch(text, base_font_size, MinSize(base_font_size),
                                  fontKind, max_width, max_height, spacing)]

\* ------------------------------------------------------------ _parse_color
HexDigits == <<"0", "1", "2", "3", "4", "5", "6", "7", "8", "9",
               "A", "B", "C", "D", "E", "F">>
LowerHex == [a |-> "A", b |-> "B", c |-> "C", d |-> "D", e |-> "E", f |-> "F"]

IsHex(ch) ==
    \/ \E i \in 1..16 : HexDigits[i] = ch
    \/ ch \in {"a", "b", "c", "d", "e", "f"}

HexValue(ch) ==
    IF ch \in {"a", "b", "c", "d", "e", "f"}
    THEN CHOOSE i \in 0..15 : HexDigits[i + 1] = LowerHex[ch]
    ELSE CHOOSE i \in 0..15 : HexDigits[i + 1] = ch

RECURSIVE Doubled(_)
Doubled(raw) ==
    IF raw = <<>> THEN <<>> ELSE <<Head(raw), Head(raw)>> \o Doubled(Tail(raw))

\* the characters str.strip() and int() drop at both ends
Whitespace == {" ", NL, "\t"}

RECURSIVE Strip(_)
Strip(chars) ==
    IF chars # <<>> /\ Head(chars) \in Whitespace THEN Strip(Tail(chars))
    ELSE IF chars # <<>> /\ chars[Len(chars)] \in Whitespace
    THEN Strip(SubSeq(chars, 1, Len(chars) - 1))
    ELSE chars

\* int(pair, 16) of a two-character string (generator.py:36-39): int()
\* strips whitespace and takes one sign before the digits, so besides two
\* hex digits it accepts a sign or a whitespace character next to one digit
HexPair(pair) ==
    LET body == Strip(pair)
        digs == IF body # <<>> /\ Head(body) \in {"+", "-"} THEN Tail(body)
                ELSE body
        mag  == IF Len(digs) = 2 THEN 16 * HexValue(digs[1]) + HexValue(digs[2])
                ELSE HexValue(digs[1])
    IN  IF digs = <<>> \/ \E i \in 1..Len(digs) : ~IsHex(digs[i])
        THEN [ok |-> FALSE, v |-> 0]
        ELSE [ok |-> TRUE,
              v |-> IF Head(body) = "-" THEN 0 - mag ELSE mag]

\* generator.py:25-40: the colour, or ok = FALSE for the ValueError
ParseColor(value) ==
    LET stripped == Strip(value)
    IN  IF stripped = <<>> \/ Head(stripped) # "#" THEN [ok |-> FALSE, rgba |-> <<>>]
        ELSE LET raw1 == Tail(stripped)
                 raw2 == IF Len(raw1) = 3 THEN Doubled(raw1) ELSE raw1
                 raw3 == IF Len(raw2) = 6 THEN raw2 \o <<"F", "F">> ELSE raw2
             IN  IF Len(raw3) # 8
                    \/ \E k \in 1..4 : ~HexPair(SubSeq(raw3, 2 * k - 1, 2 * k)).ok
                 THEN [ok |-> FALSE, rgba |-> <<>>]
                 ELSE [ok |-> TRUE,
                       rgba |-> [k \in 1..4 |->
                                  HexPair(SubSeq(raw3, 2 * k - 1, 2 * k)).v]]

\* ------------------------------------------------------------ _render_base
Truthy(path) == path \notin {"none", "empty"}

IllustrationOn(spec) == spec.illustration \in {"enabled", "enabled_badcolor"}

\* generator.py:86
HasArt(spec) == Truthy(spec.image_path) \/ IllustrationOn(spec)

\* a plausible slip: the 35% floor is forgotten
TextRegionNoCap(spec, base_size) ==
    LET aw == base_size[1] - spec.padding * 2
        ah == base_size[2] - spec.padding * 2
        reserved == IF HasArt(spec) THEN Trunc(ah * spec.image_area_ratio, 100) ELSE 0
    IN  [available_width |-> aw, available_height |-> ah,
         image_reserved_height |-> reserved,
         text_box_height |-> ah - reserved]

\* generator.py:84-88
TextRegion(spec, base_size) ==
    LET aw == base_size[1] - spec.padding * 2
        ah == base_size[2] - spec.padding * 2
        reserved == IF HasArt(spec) THEN Trunc(ah * spec.image_area_ratio, 100) ELSE 0
    IN  [available_width |-> aw, available_height |-> ah,
         image_reserved_height |-> reserved,
         text_box_height |-> Max(ah - reserved, Trunc(ah * MinTextPercent, 100))]

\* _compose_background (generator.py:128-138): the error it raises, if any
ComposeBackground(spec) ==
    IF ~ParseColor(spec.background_color).ok THEN "InvalidColor"
    ELSE IF spec.background_image = "missing" THEN "AssetNotFound"
    ELSE "ok"

\* _draw_text_block (generator.py:174-194): colours are parsed per line
\* drawn, and _wrap_text never returns an empty list
DrawTextBlock(spec, lines) ==
    IF lines # <<>> /\ ~ParseColor(spec.text_color).ok THEN "InvalidColor" ELSE "ok"

\* _render_illustration (generator.py:370-372): the side of its square canvas
IllustrationSize(base_size) ==
    Max(Trunc(Min(base_size[1], base_size[2]) * IllustrationPercent, 100),
        IllustrationFloor)

NoArt == [source |-> "none", status |-> "ok", image_loads |-> 0,
          illustration_renders |-> 0, size |-> <<0, 0>>]

\* a plausible slip: the illustration is tried before the image
ObtainArtIllustrationFirst(spec, base_size) ==
    IF IllustrationOn(spec)
    THEN [source |-> "illustration", status |-> "ok", image_loads |-> 0,
          illustration_renders |-> 1,
          size |-> <<IllustrationSize(base_size), IllustrationSize(base_size)>>]
    ELSE IF Truthy(spec.image_path)
    THEN [source |-> "image", status |-> "ok", image_loads |-> 1,
          illustration_renders |-> 0, size |-> spec.image_size]
    ELSE NoArt

\* generator.py:361-368
ObtainArtImage(spec, base_size) ==
    IF Truthy(spec.image_path)
    THEN IF spec.image_path = "missing"
         THEN [source |-> "image", status |-> "AssetNotFound", image_loads |-> 0,
               illustration_renders |-> 0, size |-> <<0, 0>>]
         ELSE [source |-> "image", status |-> "ok", image_loads |-> 1,
               illustration_renders |-> 0, size |-> spec.image_size]
    ELSE IF IllustrationOn(spec)
    THEN [source |-> "illustration",
          status |-> IF spec.illustration = "enabled_badcolor"
                     THEN "InvalidColor" ELSE "ok",
          image_loads |-> 0, illustration_renders |-> 1,
          size |-> <<IllustrationSize(base_size), IllustrationSize(base_size)>>]
    ELSE NoArt

\* Image.thumbnail's choice between floor and ceil of the scaled side:
\* the one whose aspect is nearer (err is the distance, cross-multiplied), at
\* least 1
RoundAspect(num, den, errFloor, errCeil) ==
    LET lo == num \div den
        hi == IF num % den = 0 THEN lo ELSE lo + 1
    IN  Max(IF errFloor <= errCeil THEN lo ELSE hi, 1)

\* Image.thumbnail((max_width, max_height)) on an image of size art, for
\* max_height > 0 (generator.py:156): aspect-preserving, never enlarging
Thumbnail(art, max_width, max_height) ==
    LET w == art[1]
        h == art[2]
    IN  IF max_width >= w /\ max_height >= h THEN art
        ELSE IF max_width * h >= w * max_height
        THEN LET lo == (max_height * w) \div h
                 hi == IF (max_height * w) % h = 0 THEN lo ELSE lo + 1
             IN  <<RoundAspect(max_height * w, h,
                               Abs(w * max_height - lo * h),
                               Abs(w * max_height - hi * h)), max_height>>
        ELSE LET lo == (max_width * h) \div w
                 hi == IF (max_width * h) % w = 0 THEN lo ELSE lo + 1
             IN  <<max_width,
                   RoundAspect(max_width * h, w,
                               IF lo = 0 THEN 0 ELSE Abs(w * lo - max_width * h) * hi,
                               IF hi = 0 THEN 0 ELSE Abs(w * hi - max_width * h) * lo)>>

NotPlaced == [placed |-> FALSE, status |-> "ok", max_height |-> 0,
              size |-> <<0, 0>>, x_pos |-> 0, y_pos |-> 0]

\* a plausible slip: the height left for the art does not count the text
CompositeArtOverText(art_size, text_width, full_height, padding, text_bottom, bottom_margin) ==
    LET max_height == Max(0, full_height - 2 * padding - bottom_margin)
    IN  IF max_height <= 0 THEN NotPlaced
        ELSE LET size == Thumbnail(art_size, text_width, max_height)
                 horizontal_margin == (text_width - size[1]) \div 2
             IN  IF size[1] <= 0 \/ size[2] <= 0
                 THEN [NotPlaced EXCEPT !.status = "ResizeError",
                                        !.max_height = max_height]
                 ELSE [placed |-> TRUE, status |-> "ok", max_height |-> max_height,
                       size |-> size,
                       x_pos |-> padding + Max(0, horizontal_margin),
                       y_pos |-> full_height - padding - bottom_margin - size[2]]

\* generator.py:140-160
CompositeArt(art_size, text_width, full_height, padding, text_bottom, bottom_margin) ==
    LET max_height == Max(0, full_height - text_bottom - padding - bottom_margin)
    IN  IF max_height <= 0 THEN NotPlaced
        ELSE LET size == Thumbnail(art_size, text_width, max_height)
                 horizontal_margin == (text_width - size[1]) \div 2
             IN  IF size[1] <= 0 \/ size[2] <= 0
                 THEN [NotPlaced EXCEPT !.status = "ResizeError",
                                        !.max_height = max_height]
                 ELSE [placed |-> TRUE, status |-> "ok", max_height |-> max_height,
                       size |-> size,
                       x_pos |-> padding + Max(0, horizontal_margin),
                       y_pos |-> full_height - padding - bottom_margin - size[2]]

RenderFailed(error, stage, region, art) ==
    [status |-> "error", error |-> error, stage |-> stage, region |-> region,
     layout |-> NoLayout, text_top |-> 0, text_bottom |-> 0,
     art |-> art, place |-> NotPlaced]

NoRegion == [available_width |-> 0, available_height |-> 0,
             image_reserved_height |-> 0, text_box_height |-> 0]

\* generator.py:79-126: the composed base image, or the error raised on the
\* way, with what had been computed by then
RenderBase(spec, base_size, font_size, fontKind) ==
    LET bg     == ComposeBackground(spec)
        region == TextRegion(spec, base_size)
        laid   == LayoutText(spec.text, region.available_width,
                             region.text_box_height, font_size,
                             spec.line_spacing, fontKind)
    IN  IF bg # "ok" THEN RenderFailed(bg, "background", NoRegion, NoArt)
        ELSE IF laid.status # "ok"
        THEN RenderFailed("FontLoadFailure", "layout", region, NoArt)
        ELSE
        LET lay    == laid.layout
            block  == BlockHeight(Len(lay.lines), lay.line_height, lay.line_gap)
            top    == spec.padding + Max(0, (region.text_box_height - block) \div 2)
            bottom == top + block
            drawn  == DrawTextBlock(spec, lay.lines)
            art    == ObtainArtImage(spec, base_size)
            place  == IF art.source = "none" THEN NotPlaced
                      ELSE CompositeArt(art.size, region.available_width,
                                        base_size[2], spec.padding, bottom,
                                        spec.image_bottom_margin)
        IN  IF drawn # "ok" THEN RenderFailed(drawn, "draw", region, NoArt)
            ELSE IF art.status # "ok" THEN RenderFailed(art.status, "art", region, art)
            ELSE IF place.status # "ok"
            THEN RenderFailed(place.status, "composite", region, art)
            ELSE [status |-> "ok", error |-> "none", stage |-> "done",
                  region |-> region, layout |-> lay, text_top |-> top,
                  text_bottom |-> bottom, art |-> art, place |-> place]

\* ----------------------------------------------------------------- _slugify
UpperToLower == [H |-> "h", S |-> "s"]
LowerAlnum == {"h", "i", "s", "t", "a", "m", "p", "0", "1", "2", "3", "4", "5",
               "6", "7", "8", "9"}

\* generator.py:46-50: what one character contributes
SlugChar(ch) ==
    IF ch \in DOMAIN UpperToLower THEN <<UpperToLower[ch]>>
    ELSE IF ch \in LowerAlnum THEN <<ch>>
    ELSE IF ch \in {" ", "-", "_"} THEN <<"-">>
    ELSE <<>>

RECURSIVE SlugChars(_)
SlugChars(source) ==
    IF source = <<>> THEN <<>> ELSE SlugChar(Head(source)) \o SlugChars(Tail(source))

\* generator.py:52-53: runs of "-" collapse to one
RECURSIVE CollapseDashes(_)
CollapseDashes(slug) ==
    IF Len(slug) < 2 THEN slug
    ELSE IF slug[1] = "-" /\ slug[2] = "-" THEN CollapseDashes(Tail(slug))
    ELSE <<slug[1]>> \o CollapseDashes(Tail(slug))

\* generator.py:54: strip("-_ ")
RECURSIVE StripLeft(_)
StripLeft(slug) ==
    IF slug # <<>> /\ Head(slug) \in {"-", "_", " "} THEN StripLeft(Tail(slug)) ELSE slug

RECURSIVE StripRight(_)
StripRight(slug) ==
    IF slug # <<>> /\ slug[Len(slug)] \in {"-", "_", " "}
    THEN StripRight(SubSeq(slug, 1, Len(slug) - 1))
    ELSE slug

\* generator.py:43-54, on ASCII text (NFKD leaves it unchanged)
Slugify(source) == StripRight(StripLeft(CollapseDashes(SlugChars(source))))

DecimalDigit == <<"1", "2", "3", "4", "5", "6", "7", "8", "9">>

\* generator.py:315-321; an absent slug is the empty string
EnsureSlug(spec, index) ==
    IF spec.slug # <<>> THEN spec.slug
    ELSE IF Slugify(spec.text) # <<>> THEN Slugify(spec.text)
    ELSE <<"s", "t", "a", "m", "p", "_", "0", DecimalDigit[index]>>

\* ------------------------------------------------------------------ export
\* ImageOps.fit(image, size, centering=(0.5, 0.5)) (generator.py:313): the
\* centred crop box of the target ratio (crop_left, crop_top, crop_width,
\* crop_height as numerators over `den`), then a resize of that box to size
ImageOpsFit(image_size, size) ==
    LET w  == image_size[1]
        h  == image_size[2]
        tw == size[1]
        th == size[2]
    IN  IF w * th = tw * h
        THEN [size |-> size, method |-> "fit", den |-> 1,
              left |-> 0, top |-> 0, width |-> w, height |-> h]
        ELSE IF w * th >= tw * h
        THEN [size |-> size, method |-> "fit", den |-> 2 * th,
              left |-> th * w - tw * h, top |-> 0,
              width |-> 2 * tw * h, height |-> 2 * th * h]
        ELSE [size |-> size, method |-> "fit", den |-> 2 * tw,
              left |-> 0, top |-> tw * h - th * w,
              width |-> 2 * tw * w, height |-> 2 * th * w]

\* image.resize(size) (generator.py:312): the whole image scaled to size
PlainResize(image_size, size) ==
    [size |-> size, method |-> "resize", den |-> 1, left |-> 0, top |-> 0,
     width |-> image_size[1], height |-> image_size[2]]

\* a plausible slip: every export is a plain resize
ResizeAlwaysPlain(image_size, size, tieIsClose) == PlainResize(image_size, size)

\* a plausible slip: a plain resize only when the two ratios are equal
ResizeEqualRatioOnly(image_size, size, tieIsClose) ==
    IF image_size[1] * size[2] = size[1] * image_size[2]
    THEN PlainResize(image_size, size)
    ELSE ImageOpsFit(image_size, size)

\* generator.py:308-313.  The ratios are compared in binary floating point;
\* when they differ by exactly 0.01 the rounding decides, so that case is
\* left to tieIsClose.
ResizeForTarget(image_size, size, tieIsClose) ==
    LET gap   == Abs(image_size[1] * size[2] - size[1] * image_size[2]) * 100
        unit  == image_size[2] * size[2] * RatioTolerance
        close == gap < unit \/ (gap = unit /\ tieIsClose)
    IN  IF close THEN PlainResize(image_size, size)
        ELSE ImageOpsFit(image_size, size)

\* a plausible slip: every file gets the suffix of the main export
ExportPathMainSuffix(category, slug) ==
    [dir |-> category, slug |-> slug, suffix |-> "main"]

\* generator.py:296 and 305: {category}/{slug}_{category}.png
ExportPath(category, slug) ==
    [dir |-> category, slug |-> slug, suffix |-> category]

\* the filesystem after writing `content` at `path` (Image.save overwrites)
WriteFile(files, path, content) ==
    [q \in DOMAIN files \cup {path} |-> IF q = path THEN content ELSE files[q]]

\* a plausible slip: an existing export is kept instead of overwritten
ExportScaledKeepExisting(files, image, slug, category, size, tieIsClose) ==
    IF size[1] <= 0 \/ size[2] <= 0 \/ ExportPath(category, slug) \in DOMAIN files
    THEN files
    ELSE WriteFile(files, ExportPath(category, slug),
                   [sticker |-> image.sticker,
                    image |-> ResizeForTarget(image.size, size, tieIsClose)])

\* generator.py:295-306: the files after the export (the directory is
\* created in every case)
ExportScaled(files, image, slug, category, size, tieIsClose) ==
    IF size[1] <= 0 \/ size[2] <= 0 THEN files
    ELSE WriteFile(files, ExportPath(category, slug),
                   [sticker |-> image.sticker,
                    image |-> ResizeForTarget(image.size, size, tieIsClose)])

\* config.py:119-121
BaseSize(config) ==
    <<config.main_size[1] * config.scale_multiplier,
      config.main_size[2] * config.scale_multiplier>>

SetIconPath == [dir |-> "set_icon", slug |-> <<>>, suffix |-> "set_icon"]

\* generator.py:263-293: the error raised, or the image saved
GenerateSetIcon(config) ==
    LET size      == Max(config.store_size[1], config.store_size[2])
        base_size == size * config.scale_multiplier
        font_size == IF config.set_icon_font_size # 0 THEN config.set_icon_font_size
                     ELSE Max(SetIconMinFont, Trunc(base_size * SetIconFontPercent, 100))
        box       == base_size - Trunc(base_size * SetIconMarginPercent, 100)
        laid      == LayoutText(config.set_icon_text, box, box, font_size,
                                SetIconSpacing, config.fontKind)
    IN  IF ~ParseColor(config.set_icon_background).ok
        THEN [status |-> "InvalidColor"]
        ELSE IF base_size < 0 THEN [status |-> "ValueError"]
        ELSE IF laid.status # "ok" THEN [status |-> "FontLoadFailure"]
        ELSE IF ~ParseColor(config.set_icon_text_color).ok
        THEN [status |-> "InvalidColor"]
        ELSE IF size = 0 THEN [status |-> "ZeroDivisionError"]
        ELSE [status |-> "ok",
              content |-> [sticker |-> 0,
                           image |-> ImageOpsFit(<<base_size, base_size>>,
                                                 <<size, size>>)]]

\* ------------------------------------------------------------------ config
\* the values a JSON or YAML configuration holds, tagged with their Python
\* type.  A float is held in hundredths; a str is a sequence of characters;
\* Absent is a key the mapping does not have.
PyValue(t, n, chars, items) == [t |-> t, n |-> n, chars |-> chars, items |-> items]
PyInt(n) == PyValue("int", n, <<>>, <<>>)
PyFloat(hundredths) == PyValue("float", hundredths, <<>>, <<>>)
PyNaN == PyValue("nan", 0, <<>>, <<>>)
PyStr(chars) == PyValue("str", 0, chars, <<>>)
PyList(items) == PyValue("list", 0, <<>>, items)
PyDict == PyValue("dict", 0, <<>>, <<>>)
PyNone == PyValue("none", 0, <<>>, <<>>)
Absent == PyValue("absent", 0, <<>>, <<>>)

\* data.get(key, default)
Get(value, default) == IF value.t = "absent" THEN default ELSE value

Digits == <<"0", "1", "2", "3", "4", "5", "6", "7", "8", "9">>
IsDigit(ch) == \E i \in 1..10 : Digits[i] = ch
DigitValue(ch) == (CHOOSE i \in 1..10 : Digits[i] = ch) - 1
AllDigits(chars) == Len(chars) > 0 /\ \A i \in 1..Len(chars) : IsDigit(chars[i])

RECURSIVE DigitsValue(_)
DigitsValue(chars) ==
    IF chars = <<>> THEN 0
    ELSE 10 * DigitsValue(SubSeq(chars, 1, Len(chars) - 1))
         + DigitValue(chars[Len(chars)])

Unsigned(chars) ==
    IF chars # <<>> /\ Head(chars) \in {"-", "+"} THEN Tail(chars) ELSE chars

Signed(chars, magnitude) ==
    IF chars # <<>> /\ Head(chars) = "-" THEN 0 - magnitude ELSE magnitude

\* int(value): the integer, or the exception raised.  A str is a whitespace-
\* padded, optionally signed run of decimal digits; a float is truncated
\* toward zero; None, a list and a mapping are a TypeError.
ToInt(value) ==
    CASE value.t = "int"   -> [status |-> "ok", v |-> value.n]
      [] value.t = "float" -> [status |-> "ok", v |-> Trunc(value.n, 100)]
      [] value.t = "nan"   -> [status |-> "ValueError", v |-> 0]
      [] value.t = "str"   ->
            LET body == Strip(value.chars)
            IN  IF AllDigits(Unsigned(body))
                THEN [status |-> "ok",
                      v |-> Signed(body, DigitsValue(Unsigned(body)))]
                ELSE [status |-> "ValueError", v |-> 0]
      [] OTHER             -> [status |-> "TypeError", v |-> 0]

\* the position of the decimal point of chars, 0 when it has none
PointAt(chars) ==
    IF \E i \in 1..Len(chars) : chars[i] = "."
    THEN CHOOSE i \in 1..Len(chars) :
            chars[i] = "." /\ \A j \in 1..(i - 1) : chars[j] # "."
    ELSE 0

\* float(value) in hundredths: the number, NaN, or the exception raised.  A
\* str is "nan" or a blank-padded, optionally signed decimal with at most
\* two digits after the point.
ToFloat(value) ==
    CASE value.t = "int"   -> [status |-> "ok", nan |-> FALSE, v |-> 100 * value.n]
      [] value.t = "float" -> [status |-> "ok", nan |-> FALSE, v |-> value.n]
      [] value.t = "nan"   -> [status |-> "ok", nan |-> TRUE, v |-> 0]
      [] value.t = "str"   ->
            LET body  == Strip(value.chars)
                digs  == Unsigned(body)
                point == PointAt(digs)
                whole == IF point = 0 THEN digs ELSE SubSeq(digs, 1, point - 1)
                frac  == IF point = 0 THEN <<>>
                         ELSE SubSeq(digs, point + 1, Len(digs))
                cents == IF Len(frac) = 1 THEN 10 * DigitsValue(frac)
                         ELSE DigitsValue(frac)
            IN  IF body = <<"n", "a", "n">>
                THEN [status |-> "ok", nan |-> TRUE, v |-> 0]
                ELSE IF /\ Len(whole) + Len(frac) > 0
                        /\ Len(frac) <= 2
                        /\ \A i \in 1..Len(whole) : IsDigit(whole[i])
                        /\ \A i \in 1..Len(frac) : IsDigit(frac[i])
                THEN [status |-> "ok", nan |-> FALSE,
                      v |-> Signed(body, 100 * DigitsValue(whole) + cents)]
                ELSE [status |-> "ValueError", nan |-> FALSE, v |-> 0]
      [] OTHER             -> [status |-> "TypeError", nan |-> FALSE, v |-> 0]

\* the values `for v in value` yields, or the TypeError of a value that is
\* not iterable; a str yields its characters
Iterate(value) ==
    CASE value.t = "list" -> [status |-> "ok", items |-> value.items]
      [] value.t = "str"  ->
            [status |-> "ok",
             items |-> [i \in 1..Len(value.chars) |-> PyStr(<<value.chars[i]>>)]]
      [] OTHER            -> [status |-> "TypeError", items |-> <<>>]

\* config.py:13: tuple(int(v) for v in value), left to right; the first
\* element int() rejects decides the exception
RECURSIVE IntItems(_)
IntItems(items) ==
    IF items = <<>> THEN [status |-> "ok", items |-> <<>>]
    ELSE LET first == ToInt(Head(items))
             rest  == IntItems(Tail(items))
         IN  IF first.status # "ok" THEN [status |-> first.status, items |-> <<>>]
             ELSE IF rest.status # "ok" THEN rest
             ELSE [status |-> "ok", items |-> <<first.v>> \o rest.items]

\* config.py:9-18: the tuple returned, or the ValueError that escapes
AsTuple(value, length, fallback) ==
    LET iter  == Iterate(value)
        items == IntItems(iter.items)
    IN  IF value.t = "int"
        THEN [status |-> "ok", items |-> [i \in 1..length |-> value.n]]
        ELSE IF iter.status = "TypeError" \/ items.status = "TypeError"
        THEN [status |-> "ok", items |-> fallback]
        ELSE IF items.status = "ValueError"
        THEN [status |-> "ValueError", items |-> <<>>]
        ELSE IF Len(items.items) # length
        THEN [status |-> "ok", items |-> fallback]
        ELSE [status |-> "ok", items |-> items.items]

\* a plausible slip: the lower bound is not applied
AsFloatNoMinimum(value, default, minimum, maximum) ==
    LET as_float == ToFloat(value)
    IN  IF as_float.status # "ok" THEN default
        ELSE IF as_float.nan THEN maximum
        ELSE Min(maximum, as_float.v)

\* config.py:21-26, in hundredths.  min(maximum, NaN) is maximum: no
\* comparison with NaN is true.
AsFloat(value, default, minimum, maximum) ==
    LET as_float == ToFloat(value)
    IN  IF as_float.status # "ok" THEN default
        ELSE IF as_float.nan THEN Max(minimum, maximum)
        ELSE Max(minimum, Min(maximum, as_float.v))

\* bool(value), as `if illustration_raw:` takes it
PyTruthy(value) ==
    CASE value.t \in {"none", "absent"} -> FALSE
      [] value.t \in {"int", "float"}   -> value.n # 0
      [] value.t = "str"                -> value.chars # <<>>
      [] value.t = "list"               -> value.items # <<>>
      [] OTHER                          -> TRUE

DefaultShadowOffset == <<8, 8>>
DefaultPadding == 90
DefaultBottomMargin == 40
DefaultLineSpacing == 105
MinLineSpacing == 10
MaxLineSpacing == 200
DefaultAreaRatio == 45
MinAreaRatio == 0
MaxAreaRatio == 95
DefaultFontSize == 180
MinFontSize == 24
DefaultScale == 4
MinScale == 2
DefaultMainSize == <<370, 320>>
DefaultTabSize == <<96, 74>>
DefaultStoreSize == <<240, 240>>

PyPair(pair) == PyList(<<PyInt(pair[1]), PyInt(pair[2])>>)

LoadFailed(error) == [status |-> error]

\* config.py:66-90: the StickerSpec built from one entry of "stickers", or
\* the exception raised.  The str() conversions of slug and colours cannot
\* fail and are left out.
StickerFromDict(raw) ==
    LET offset  == AsTuple(Get(raw.text_shadow_offset, PyPair(DefaultShadowOffset)),
                           2, DefaultShadowOffset)
        padding == ToInt(Get(raw.padding, PyInt(DefaultPadding)))
        margin  == ToInt(Get(raw.image_bottom_margin, PyInt(DefaultBottomMargin)))
        spacing == AsFloat(Get(raw.line_spacing, PyFloat(DefaultLineSpacing)),
                           DefaultLineSpacing, MinLineSpacing, MaxLineSpacing)
        ratio   == AsFloat(Get(raw.image_area_ratio, PyFloat(DefaultAreaRatio)),
                           DefaultAreaRatio, MinAreaRatio, MaxAreaRatio)
        stroke  == ToInt(Get(raw.text_stroke_width, PyInt(0)))
    IN  IF offset.status # "ok" THEN LoadFailed(offset.status)
        ELSE IF padding.status # "ok" THEN LoadFailed(padding.status)
        ELSE IF margin.status # "ok" THEN LoadFailed(margin.status)
        ELSE IF stroke.status # "ok" THEN LoadFailed(stroke.status)
        ELSE IF PyTruthy(raw.illustration) /\ raw.illustration.t # "dict"
        THEN LoadFailed("ValueError")
        ELSE IF raw.text.t = "absent" THEN LoadFailed("TypeError")
        ELSE [status |-> "ok",
              spec |-> [text |-> raw.text,
                        text_shadow_offset |-> offset.items,
                        padding |-> padding.v,
                        image_bottom_margin |-> margin.v,
                        line_spacing |-> spacing,
                        image_area_ratio |-> ratio,
                        text_stroke_width |-> stroke.v,
                        illustration |-> PyTruthy(raw.illustration)]]

\* config.py:108-117 after the dataclass defaults (config.py:98-102): the
\* GenerationConfig, or the exception raised
PostInit(raw, stickers) ==
    LET font  == ToInt(Get(raw.font_size, PyInt(DefaultFontSize)))
        main  == AsTuple(Get(raw.main_size, PyPair(DefaultMainSize)), 2, DefaultMainSize)
        tab   == AsTuple(Get(raw.tab_size, PyPair(DefaultTabSize)), 2, DefaultTabSize)
        store == AsTuple(Get(raw.store_size, PyPair(DefaultStoreSize)), 2,
                         DefaultStoreSize)
        scale == ToInt(Get(raw.scale_multiplier, PyInt(DefaultScale)))
    IN  IF font.status # "ok" THEN LoadFailed(font.status)
        ELSE IF main.status # "ok" THEN LoadFailed(main.status)
        ELSE IF tab.status # "ok" THEN LoadFailed(tab.status)
        ELSE IF store.status # "ok" THEN LoadFailed(store.status)
        ELSE IF scale.status # "ok" THEN LoadFailed(scale.status)
        ELSE [status |-> "ok",
              config |-> [stickers |-> stickers,
                          font_size |-> Max(MinFontSize, font.v),
                          main_size |-> main.items,
                          tab_size |-> tab.items,
                          store_size |-> store.items,
                          scale_multiplier |-> Max(MinScale, scale.v)]]

\* a plausible slip: --disable-set-icon is applied before --set-icon-text
MainDisableFirst(loaded, cmd) ==
    LET cleared == IF cmd.disable_set_icon
                   THEN [loaded EXCEPT !.set_icon_text = <<>>]
                   ELSE loaded
    IN  IF cmd.set_icon_text # <<>>
        THEN [cleared EXCEPT !.set_icon_text = cmd.set_icon_text[1]]
        ELSE cleared

\* generate_stamps.py:45-48: the configuration after the command line
\* overrides.  cmd.set_icon_text is <<>> when the option is not given
\* (None), else <<text>>; a cleared set_icon_text (None) is the empty text.
Main(loaded, cmd) ==
    LET named == IF cmd.set_icon_text # <<>>
                 THEN [loaded EXCEPT !.set_icon_text = cmd.set_icon_text[1]]
                 ELSE loaded
    IN  IF cmd.disable_set_icon
        THEN [named EXCEPT !.set_icon_text = <<>>]
        ELSE named

\* ---------------------------------------------------------------- state
VARIABLES
    wText, wFont, wMaxWidth,      \* _wrap_text: arguments
    wPos, wLines, wCurrent,       \* _wrap_text: loop position and locals
    wPc, wResult,                 \* _wrap_text: control point and return value
    lText, lMaxWidth, lMaxHeight, \* _layout_text: arguments
    lBase, lSpacing, lFontKind,   \* _layout_text: arguments, configured font
    lSize, lMinSize,              \* _layout_text: locals
    lTries, lFellBack,            \* layouts attempted in the loop; fallback taken
    lPc, lResult,                 \* _layout_text: control point and return value
    cSpec, cCanvas,               \* _render_base: the sticker, config.base_size
    cFontSize, cFontKind,         \* config.font_size, the configured font
    cPc, cOut,                    \* _render_base: control point and outcome
    eSource, eTarget, eTie,       \* _resize_for_target: image size, target, rounding
    ePc, eOut,                    \* _resize_for_target: control point, result
    args,                         \* main: the parsed command line
    config,                       \* StickerGenerator.config
    rIndex, rPc,                  \* generate_all: loop index, control point
    rImage, rSlug,                \* generate_all: base_image, slug
    files, dirs,                  \* the output directory: files and directories
    rFailedAt, rFilesAtFailure,   \* history: failing sticker, files at that moment
    rIconSaves,                   \* history: saves of set_icon/set_icon.png
    ldRaw,                        \* load_config: raw_config
    ldIndex, ldStickers,          \* load_config: entry reached, stickers built
    ldPc, ldOut,                  \* load_config: control point, outcome
    pcValue, pcPc, pcOut          \* _parse_color: argument, control point, result

wrapVars == <<wText, wFont, wMaxWidth, wPos, wLines, wCurrent, wPc, wResult>>
layoutVars == <<lText, lMaxWidth, lMaxHeight, lBase, lSpacing, lFontKind,
                lSize, lMinSize, lTries, lFellBack, lPc, lResult>>
composeVars == <<cSpec, cCanvas, cFontSize, cFontKind, cPc, cOut>>
exportVars == <<eSource, eTarget, eTie, ePc, eOut>>
runVars == <<args, config, rIndex, rPc, rImage, rSlug, files, dirs,
             rFailedAt, rFilesAtFailure, rIconSaves>>
loadVars == <<ldRaw, ldIndex, ldStickers, ldPc, ldOut>>
colorVars == <<pcValue, pcPc, pcOut>>
vars == <<wrapVars, layoutVars, composeVars, exportVars, runVars, loadVars, colorVars>>


\* the machines a specification does not run stay idle
WrapIdle ==
    /\ wText = <<>> /\ wFont = GetFont("default", 0) /\ wMaxWidth = 0
    /\ wPos = 1 /\ wLines = <<>> /\ wCurrent = <<>>
    /\ wPc = "idle" /\ wResult = <<>>

ComposeIdle ==
    /\ cSpec = <<>> /\ cCanvas = <<0, 0>> /\ cFontSize = 0
    /\ cFontKind = "default" /\ cPc = "idle" /\ cOut = <<>>

ExportIdle ==
    /\ eSource = <<0, 0>> /\ eTarget = <<0, 0>> /\ eTie = FALSE
    /\ ePc = "idle" /\ eOut = <<>>

NoFiles == <<>>

RunIdle ==
    /\ args = <<>> /\ config = <<>> /\ rIndex = 0 /\ rPc = "idle"
    /\ rImage = <<>> /\ rSlug = <<>> /\ files = NoFiles /\ dirs = {}
    /\ rFailedAt = 0 /\ rFilesAtFailure = NoFiles /\ rIconSaves = 0

ColorIdle == pcValue = <<>> /\ pcPc = "idle" /\ pcOut = <<>>

LoadIdle ==
    /\ ldRaw = <<>> /\ ldIndex = 0 /\ ldStickers = <<>>
    /\ ldPc = "idle" /\ ldOut = <<>>

LayoutIdle ==
    /\ lText = <<>> /\ lMaxWidth = 0 /\ lMaxHeight = 0
    /\ lBase = 0 /\ lSpacing = 100 /\ lFontKind = "default"
    /\ lSize = 0 /\ lMinSize = 0 /\ lTries = 0 /\ lFellBack = FALSE
    /\ lPc = "idle" /\ lResult = NoLayout

\* --------------------------------------------------- the wrapping machine
WrapAlphabet == {"i", "H", NL}
WrapFonts == {GetFont("truetype", 20), GetFont("truetype", 40), GetFont("default", 20)}
WidthBudgets == {-4, 0, 12, 20, 40}

WrapInit ==
    /\ wText \in TextsUpTo(WrapAlphabet, MaxLen)
    /\ wFont \in WrapFonts
    /\ wMaxWidth \in WidthBudgets
    /\ wPos = 1
    /\ wLines = <<>>
    /\ wCurrent = <<>>
    /\ wPc = "entry"
    /\ wResult = <<>>
    /\ LayoutIdle /\ ComposeIdle /\ ExportIdle /\ RunIdle /\ LoadIdle
    /\ ColorIdle

\* generator.py:243-244
WrapEmptyText ==
    /\ wPc = "entry"
    /\ wText = <<>>
    /\ wResult' = << <<>> >>
    /\ wPc' = "done"
    /\ UNCHANGED <<wText, wFont, wMaxWidth, wPos, wLines, wCurrent>>
    /\ UNCHANGED <<layoutVars, composeVars, exportVars, runVars, loadVars, colorVars>>

\* generator.py:245-246
WrapEnterLoop ==
    /\ wPc = "entry"
    /\ wText # <<>>
    /\ wPc' = "scan"
    /\ UNCHANGED <<wText, wFont, wMaxWidth, wPos, wLines, wCurrent, wResult>>
    /\ UNCHANGED <<layoutVars, composeVars, exportVars, runVars, loadVars, colorVars>>

\* generator.py:247-258, one character
WrapNextChar ==
    /\ wPc = "scan"
    /\ wPos <= Len(wText)
    /\ LET st == WrapChar([lines |-> wLines, current |-> wCurrent],
                          wText[wPos], wFont, wMaxWidth)
       IN  /\ wLines' = st.lines
           /\ wCurrent' = st.current
    /\ wPos' = wPos + 1
    /\ UNCHANGED <<wText, wFont, wMaxWidth, wPc, wResult>>
    /\ UNCHANGED <<layoutVars, composeVars, exportVars, runVars, loadVars, colorVars>>

\* generator.py:259-261
WrapReturn ==
    /\ wPc = "scan"
    /\ wPos > Len(wText)
    /\ wResult' = WrapFlush([lines |-> wLines, current |-> wCurrent])
    /\ wPc' = "done"
    /\ UNCHANGED <<wText, wFont, wMaxWidth, wPos, wLines, wCurrent>>
    /\ UNCHANGED <<layoutVars, composeVars, exportVars, runVars, loadVars, colorVars>>

WrapNext == WrapEmptyText \/ WrapEnterLoop \/ WrapNextChar \/ WrapReturn

SpecWrap == WrapInit /\ [][WrapNext]_vars

\* ----------------------------------------------------- the layout machine
LayoutTexts == TextsUpTo({"H", NL}, MaxLen)
LayoutWidths == {-4, 12, 40, 200}
LayoutHeights == {-4, 30, 60, 200}
\* config.font_size is at least 24; set_icon_font_size is taken as given
BaseFontSizes == {10, 24, 30, 84}
LineSpacings == {105, 200}
FontKinds == {"truetype", "default", "corrupt"}

LayoutInit ==
    /\ lText \in LayoutTexts
    /\ lMaxWidth \in LayoutWidths
    /\ lMaxHeight \in LayoutHeights
    /\ lBase \in BaseFontSizes
    /\ lSpacing \in LineSpacings
    /\ lFontKind \in FontKinds
    /\ lSize = 0
    /\ lMinSize = 0
    /\ lTries = 0
    /\ lFellBack = FALSE
    /\ lPc = "entry"
    /\ lResult = NoLayout
    /\ WrapIdle /\ ComposeIdle /\ ExportIdle /\ RunIdle /\ LoadIdle
    /\ ColorIdle

LayoutArgs == <<lText, lMaxWidth, lMaxHeight, lBase, lSpacing, lFontKind>>

\* generator.py:204-205
LayoutEnter ==
    /\ lPc = "entry"
    /\ lSize' = lBase
    /\ lMinSize' = MinSize(lBase)
    /\ lPc' = "loop"
    /\ UNCHANGED <<LayoutArgs, lTries, lFellBack, lResult>>
    /\ UNCHANGED <<wrapVars, composeVars, exportVars, runVars, loadVars, colorVars>>

\* generator.py:207 and 214: _get_font raises RuntimeError
LayoutFontFailure ==
    /\ lPc = "loop"
    /\ lFontKind = "corrupt"
    /\ lPc' = "error"
    /\ UNCHANGED <<LayoutArgs, lSize, lMinSize, lTries, lFellBack, lResult>>
    /\ UNCHANGED <<wrapVars, composeVars, exportVars, runVars, loadVars, colorVars>>

\* generator.py:206-211: the size fits and is returned
LayoutAccept ==
    /\ lPc = "loop"
    /\ lFontKind # "corrupt"
    /\ lSize >= lMinSize
    /\ LET lay == LayoutAt(lText, lSize, lFontKind, lMaxWidth, lSpacing)
       IN  /\ Fits(lay, lMaxWidth, lMaxHeight)
           /\ lResult' = lay
    /\ lTries' = lTries + 1
    /\ lPc' = "done"
    /\ UNCHANGED <<LayoutArgs, lSize, lMinSize, lFellBack>>
    /\ UNCHANGED <<wrapVars, composeVars, exportVars, runVars, loadVars, colorVars>>

\* generator.py:206-212: the size does not fit, try the next one
LayoutShrink ==
    /\ lPc = "loop"
    /\ lFontKind # "corrupt"
    /\ lSize >= lMinSize
    /\ ~Fits(LayoutAt(lText, lSize, lFontKind, lMaxWidth, lSpacing),
             lMaxWidth, lMaxHeight)
    /\ lTries' = lTries + 1
    /\ lSize' = lSize - ShrinkStep
    /\ UNCHANGED <<LayoutArgs, lMinSize, lFellBack, lPc, lResult>>
    /\ UNCHANGED <<wrapVars, composeVars, exportVars, runVars, loadVars, colorVars>>

\* generator.py:214-217: the loop ran out, lay out at min_size
LayoutFallback ==
    /\ lPc = "loop"
    /\ lFontKind # "corrupt"
    /\ lSize < lMinSize
    /\ lResult' = LayoutAt(lText, lMinSize, lFontKind, lMaxWidth, lSpacing)
    /\ lFellBack' = TRUE
    /\ lPc' = "done"
    /\ UNCHANGED <<LayoutArgs, lSize, lMinSize, lTries>>
    /\ UNCHANGED <<wrapVars, composeVars, exportVars, runVars, loadVars, colorVars>>

LayoutNext ==
    \/ LayoutEnter \/ LayoutFontFailure \/ LayoutAccept
    \/ LayoutShrink \/ LayoutFallback

SpecLayout == LayoutInit /\ [][LayoutNext]_vars

\* ------------------------------------------------ the composition machine
White == <<"#", "F", "F", "F", "F", "F", "F">>
Black == <<"#", "0", "0", "0">>
NotAColor == <<"r", "e", "d">>

ComposeTexts == {<<>>, <<"H", "i">>, <<"H", "i", NL, "H", "i", NL, "H", "i", NL, "H", "i">>}
ComposeCanvases == {<<1480, 1280>>, <<80, 64>>, <<40, 1280>>}
Paddings == {0, 90, 700}
AreaRatios == {0, 45, 70, 95}
ImagePaths == {"none", "empty", "ok", "missing"}
Illustrations == {"none", "disabled", "enabled", "enabled_badcolor"}
Defects == {"none", "background_color", "background_image", "text_color"}

\* a StickerSpec (config.py:48-64); the fields the pipeline reads
Sticker(text, slug, padding, ratio, image_path, illustration, defect) ==
    [text |-> text, slug |-> slug,
     background_color |-> IF defect = "background_color" THEN NotAColor ELSE White,
     text_color |-> IF defect = "text_color" THEN NotAColor ELSE Black,
     padding |-> padding, line_spacing |-> 105,
     image_path |-> image_path, image_size |-> <<400, 300>>,
     image_area_ratio |-> ratio, image_bottom_margin |-> 40,
     background_image |-> IF defect = "background_image" THEN "missing" ELSE "none",
     illustration |-> illustration]

\* other images and bottom margins: a tall image, a small one, a negative
\* and an oversized margin
ArtVariants ==
    { <<<<30, 2000>>, 40>>, <<<<60, 50>>, 0>>, <<<<400, 300>>, -20>>,
      <<<<400, 300>>, 1200>> }

ComposeStickers ==
    {Sticker(t, <<>>, p, r, i, l, d) :
        t \in ComposeTexts, p \in Paddings, r \in AreaRatios,
        i \in ImagePaths, l \in Illustrations, d \in Defects}
    \cup
    {[Sticker(t, <<>>, p, r, "ok", l, "none") EXCEPT
         !.image_size = v[1], !.image_bottom_margin = v[2]] :
        t \in ComposeTexts, p \in Paddings, r \in AreaRatios,
        l \in Illustrations, v \in ArtVariants}

ComposeInit ==
    /\ cSpec \in ComposeStickers
    /\ cCanvas \in ComposeCanvases
    /\ cFontSize = 180
    /\ cFontKind \in FontKinds
    /\ cPc = "entry"
    /\ cOut = <<>>
    /\ WrapIdle /\ LayoutIdle /\ ExportIdle /\ RunIdle /\ LoadIdle
    /\ ColorIdle

\* generator.py:79-126
ComposeRender ==
    /\ cPc = "entry"
    /\ cOut' = RenderBase(cSpec, cCanvas, cFontSize, cFontKind)
    /\ cPc' = "done"
    /\ UNCHANGED <<cSpec, cCanvas, cFontSize, cFontKind>>
    /\ UNCHANGED <<wrapVars, layoutVars, exportVars, runVars, loadVars, colorVars>>

ComposeNext == ComposeRender

SpecCompose == ComposeInit /\ [][ComposeNext]_vars

\* ------------------------------------------------------ the export machine
\* canvases and target sizes: the defaults, squares, and near-equal ratios
ExportSources == {<<1480, 1280>>, <<960, 960>>, <<400, 400>>, <<200, 100>>,
                  <<100, 200>>, <<300, 299>>, <<80, 64>>, <<101, 100>>}
ExportTargets == {<<370, 320>>, <<96, 74>>, <<240, 240>>, <<201, 200>>,
                  <<101, 100>>, <<100, 101>>, <<50, 100>>, <<3, 2>>}

ExportInit ==
    /\ eSource \in ExportSources
    /\ eTarget \in ExportTargets
    /\ eTie \in BOOLEAN
    /\ ePc = "entry"
    /\ eOut = <<>>
    /\ WrapIdle /\ LayoutIdle /\ ComposeIdle /\ RunIdle /\ LoadIdle
    /\ ColorIdle

\* generator.py:304
ExportResize ==
    /\ ePc = "entry"
    /\ eOut' = ResizeForTarget(eSource, eTarget, eTie)
    /\ ePc' = "done"
    /\ UNCHANGED <<eSource, eTarget, eTie>>
    /\ UNCHANGED <<wrapVars, layoutVars, composeVars, runVars, loadVars, colorVars>>

ExportNext == ExportResize

SpecExport == ExportInit /\ [][ExportNext]_vars

\* ------------------------------------------------- the generate_all machine
\* most stickers of one configuration
MaxStickers == 2

PlainSticker(text, slug) == Sticker(text, slug, 90, 45, "none", "none", "none")

RunStickers ==
    { PlainSticker(<<"H", "i">>, <<>>),
      PlainSticker(<<"h", "i", "!">>, <<>>),
      PlainSticker(<<"!">>, <<>>),
      Sticker(<<"H">>, <<"h", "i">>, 90, 45, "ok", "enabled", "none"),
      Sticker(<<"H", "i">>, <<>>, 90, 45, "none", "none", "text_color"),
      Sticker(<<"H", " ", "i">>, <<>>, 90, 45, "missing", "enabled", "none") }

StickerLists == UNION {[1..n -> RunStickers] : n \in 0..MaxStickers}

\* the command lines tried: --set-icon-text absent, empty or "H", with and
\* without --disable-set-icon
CommandLines ==
    { [set_icon_text |-> <<>>, disable_set_icon |-> FALSE],
      [set_icon_text |-> << <<>> >>, disable_set_icon |-> FALSE],
      [set_icon_text |-> << <<"H">> >>, disable_set_icon |-> FALSE],
      [set_icon_text |-> << <<"H">> >>, disable_set_icon |-> TRUE],
      [set_icon_text |-> <<>>, disable_set_icon |-> TRUE] }

\* the configurations load_config returns (config.py:93-121).  main_size is
\* positive: the canvas is built from it.  tab_size and store_size are
\* whatever pair the configuration gives.  An absent set_icon_text is the
\* empty string.
LoadedConfigs ==
    { [stickers |-> st, main_size |-> <<370, 320>>, tab_size |-> tab,
       store_size |-> store, scale_multiplier |-> 4, font_size |-> 180,
       fontKind |-> fk, set_icon_text |-> icon,
       set_icon_background |-> bg, set_icon_text_color |-> Black,
       set_icon_font_size |-> 0] :
       st \in StickerLists, tab \in {<<96, 74>>, <<0, 74>>},
       store \in {<<240, 240>>, <<240, -1>>},
       fk \in {"truetype", "corrupt"}, icon \in {<<>>, <<"H", "i">>},
       bg \in {White, NotAColor} }

\* generate_stamps.py:38-52, up to the call of generate_all
RunInit ==
    /\ args \in CommandLines
    /\ \E loaded \in LoadedConfigs : config = Main(loaded, args)
    /\ rIconSaves = 0
    /\ rIndex = 1
    /\ rPc = "loop"
    /\ rImage = <<>>
    /\ rSlug = <<>>
    /\ files = NoFiles
    /\ dirs = {}
    /\ rFailedAt = 0
    /\ rFilesAtFailure = NoFiles
    /\ WrapIdle /\ LayoutIdle /\ ComposeIdle /\ ExportIdle /\ LoadIdle
    /\ ColorIdle

OtherVars == <<wrapVars, layoutVars, composeVars, exportVars, loadVars, colorVars>>

\* a plausible slip: a failing sticker is skipped and the run goes on
RunRenderSkipFailed ==
    /\ rPc = "loop"
    /\ rIndex <= Len(config.stickers)
    /\ LET spec == config.stickers[rIndex]
           out  == RenderBase(spec, BaseSize(config), config.font_size,
                              config.fontKind)
       IN  IF out.status = "ok"
           THEN /\ rImage' = [sticker |-> rIndex, size |-> BaseSize(config)]
                /\ rSlug' = EnsureSlug(spec, rIndex)
                /\ rPc' = "export_main"
                /\ UNCHANGED <<rIndex, rFailedAt, rFilesAtFailure>>
           ELSE /\ rIndex' = rIndex + 1
                /\ rFailedAt' = IF rFailedAt = 0 THEN rIndex ELSE rFailedAt
                /\ rFilesAtFailure' = IF rFailedAt = 0 THEN files ELSE rFilesAtFailure
                /\ UNCHANGED <<rImage, rSlug, rPc>>
    /\ UNCHANGED <<args, config, files, dirs, rIconSaves>>
    /\ UNCHANGED OtherVars

\* generator.py:69-71: render the next sticker; an error raised while
\* rendering leaves generate_all
RunRender ==
    /\ rPc = "loop"
    /\ rIndex <= Len(config.stickers)
    /\ LET spec == config.stickers[rIndex]
           out  == RenderBase(spec, BaseSize(config), config.font_size,
                              config.fontKind)
       IN  IF out.status = "ok"
           THEN /\ rImage' = [sticker |-> rIndex, size |-> BaseSize(config)]
                /\ rSlug' = EnsureSlug(spec, rIndex)
                /\ rPc' = "export_main"
                /\ UNCHANGED <<rFailedAt, rFilesAtFailure>>
           ELSE /\ rPc' = "aborted"
                /\ rFailedAt' = rIndex
                /\ rFilesAtFailure' = files
                /\ UNCHANGED <<rImage, rSlug>>
    /\ UNCHANGED <<args, config, rIndex, files, dirs, rIconSaves>>
    /\ UNCHANGED OtherVars

\* generator.py:72
RunExportMain ==
    /\ rPc = "export_main"
    /\ \E tie \in BOOLEAN :
          files' = ExportScaled(files, rImage, rSlug, "main", config.main_size, tie)
    /\ dirs' = dirs \cup {"main"}
    /\ rPc' = "export_store"
    /\ UNCHANGED <<args, config, rIndex, rImage, rSlug, rFailedAt, rFilesAtFailure,
                   rIconSaves>>
    /\ UNCHANGED OtherVars

\* generator.py:73
RunExportStore ==
    /\ rPc = "export_store"
    /\ \E tie \in BOOLEAN :
          files' = ExportScaled(files, rImage, rSlug, "store", config.store_size, tie)
    /\ dirs' = dirs \cup {"store"}
    /\ rPc' = "export_tab"
    /\ UNCHANGED <<args, config, rIndex, rImage, rSlug, rFailedAt, rFilesAtFailure,
                   rIconSaves>>
    /\ UNCHANGED OtherVars

\* generator.py:74, and back to the head of the loop
RunExportTab ==
    /\ rPc = "export_tab"
    /\ \E tie \in BOOLEAN :
          files' = ExportScaled(files, rImage, rSlug, "tab", config.tab_size, tie)
    /\ dirs' = dirs \cup {"tab"}
    /\ rIndex' = rIndex + 1
    /\ rPc' = "loop"
    /\ UNCHANGED <<args, config, rImage, rSlug, rFailedAt, rFilesAtFailure,
                   rIconSaves>>
    /\ UNCHANGED OtherVars

\* generator.py:76-77: the set icon, when its text is configured
RunSetIcon ==
    /\ rPc = "loop"
    /\ rIndex > Len(config.stickers)
    /\ config.set_icon_text # <<>>
    /\ LET icon == GenerateSetIcon(config)
       IN  IF icon.status = "ok"
           THEN /\ files' = WriteFile(files, SetIconPath, icon.content)
                /\ dirs' = dirs \cup {"set_icon"}
                /\ rIconSaves' = rIconSaves + 1
                /\ rPc' = "done"
                /\ UNCHANGED <<rFailedAt, rFilesAtFailure>>
           ELSE /\ rPc' = "aborted"
                /\ rFailedAt' = rIndex
                /\ rFilesAtFailure' = files
                /\ UNCHANGED <<files, dirs, rIconSaves>>
    /\ UNCHANGED <<args, config, rIndex, rImage, rSlug>>
    /\ UNCHANGED OtherVars

\* generator.py:76: no set icon text, generate_all returns
RunReturn ==
    /\ rPc = "loop"
    /\ rIndex > Len(config.stickers)
    /\ config.set_icon_text = <<>>
    /\ rPc' = "done"
    /\ UNCHANGED <<args, config, rIndex, rImage, rSlug, files, dirs,
                   rFailedAt, rFilesAtFailure, rIconSaves>>
    /\ UNCHANGED OtherVars

RunNext ==
    \/ RunRender \/ RunExportMain \/ RunExportStore \/ RunExportTab
    \/ RunSetIcon \/ RunReturn

SpecRun == RunInit /\ [][RunNext]_vars

\* ------------------------------------------------- the load_config machine
\* the values tried for main_size
SizeValues ==
    { Absent, PyNone, PyInt(0), PyInt(-5), PyFloat(350),
      PyList(<<PyInt(0), PyInt(74)>>),
      PyList(<<PyFloat(390), PyStr(<<" ", "7">>)>>),
      PyList(<<PyInt(1), PyInt(2), PyInt(3)>>),
      PyList(<<PyNone, PyStr(<<"a">>)>>),
      PyList(<<PyStr(<<"a">>), PyNone>>),
      PyStr(<<"3", "7">>), PyStr(<<"a", "b">>) }

RawSticker(padding, spacing, ratio, illustration) ==
    [text |-> PyStr(<<"H", "i">>), text_shadow_offset |-> Absent,
     padding |-> padding, image_bottom_margin |-> Absent,
     line_spacing |-> spacing, image_area_ratio |-> ratio,
     text_stroke_width |-> Absent, illustration |-> illustration]

RawStickers ==
    { RawSticker(Absent, Absent, Absent, Absent),
      RawSticker(PyInt(700), PyInt(0), PyFloat(300), PyNone),
      RawSticker(PyStr(<<" ", "9", "0">>), PyStr(<<"x">>), PyNaN, PyDict),
      RawSticker(PyInt(-5), PyFloat(250), PyStr(<<"-", "0", ".", "5">>), Absent),
      RawSticker(Absent, Absent, Absent, PyStr(<<"c", "a", "t">>)) }

\* the value of "stickers": null, or a list of mappings
RawStickerLists ==
    {[t |-> "none", entries |-> <<>>]} \cup
    {[t |-> "list", entries |-> l] :
        l \in UNION {[1..n -> RawStickers] : n \in 0..MaxStickers}}

\* the mappings read from the configuration file
RawConfigs ==
    { [stickers |-> st, font_size |-> font, main_size |-> main,
       tab_size |-> tab, store_size |-> store, scale_multiplier |-> scale] :
       st \in RawStickerLists,
       font \in {Absent, PyInt(10), PyStr(<<"x">>)},
       main \in SizeValues,
       tab \in {Absent, PyList(<<PyInt(0), PyInt(74)>>)},
       store \in {Absent, PyInt(-5)},
       scale \in {Absent, PyFloat(190), PyNone} }

LoadInit ==
    /\ ldRaw \in RawConfigs
    /\ ldIndex = 1
    /\ ldStickers = <<>>
    /\ ldPc = "check"
    /\ ldOut = <<>>
    /\ WrapIdle /\ LayoutIdle /\ ComposeIdle /\ ExportIdle /\ RunIdle
    /\ ColorIdle

LoadFrame ==
    UNCHANGED <<wrapVars, layoutVars, composeVars, exportVars, runVars, colorVars>>

\* config.py:152-153
LoadCheck ==
    /\ ldPc = "check"
    /\ IF ldRaw.stickers.t # "list"
       THEN ldPc' = "failed" /\ ldOut' = LoadFailed("ValueError")
       ELSE ldPc' = "stickers" /\ ldOut' = ldOut
    /\ UNCHANGED <<ldRaw, ldIndex, ldStickers>>
    /\ LoadFrame

\* config.py:155: the next entry of the list comprehension
LoadSticker ==
    /\ ldPc = "stickers"
    /\ ldIndex <= Len(ldRaw.stickers.entries)
    /\ LET built == StickerFromDict(ldRaw.stickers.entries[ldIndex])
       IN  IF built.status = "ok"
           THEN /\ ldStickers' = Append(ldStickers, built.spec)
                /\ ldIndex' = ldIndex + 1
                /\ UNCHANGED <<ldPc, ldOut>>
           ELSE /\ ldPc' = "failed"
                /\ ldOut' = built
                /\ UNCHANGED <<ldStickers, ldIndex>>
    /\ UNCHANGED ldRaw
    /\ LoadFrame

\* config.py:156-159
LoadConstruct ==
    /\ ldPc = "stickers"
    /\ ldIndex > Len(ldRaw.stickers.entries)
    /\ LET built == PostInit(ldRaw, ldStickers)
       IN  /\ ldPc' = IF built.status = "ok" THEN "done" ELSE "failed"
           /\ ldOut' = built
    /\ UNCHANGED <<ldRaw, ldIndex, ldStickers>>
    /\ LoadFrame

LoadNext == LoadCheck \/ LoadSticker \/ LoadConstruct

SpecLoad == LoadInit /\ [][LoadNext]_vars

\* ------------------------------------------------ the _parse_color machine
\* the characters of the colour strings tried, and the channel pairs of the
\* six and eight character forms
ColorChars == {"F", "0", "a", "g", "+", "-", " "}
ColorPairs == { <<"F", "F">>, <<"0", "0">>, <<"A", "a">>, <<"8", "0">>,
                <<"-", "1">>, <<" ", "1">>, <<"g", "0">> }

RECURSIVE Flatten(_)
Flatten(seqs) == IF seqs = <<>> THEN <<>> ELSE Head(seqs) \o Flatten(Tail(seqs))

ColorBodies ==
    [1..3 -> ColorChars]
    \cup {Flatten(ps) : ps \in [1..3 -> ColorPairs] \cup [1..4 -> ColorPairs]}
    \cup {[i \in 1..n |-> "F"] : n \in {0, 1, 2, 4, 5, 7, 9}}

\* colour strings as a configuration gives them, with no whitespace around
ColorStrings ==
    { hash \o body : hash \in {<<"#">>, <<>>}, body \in ColorBodies }

ColorInit ==
    /\ pcValue \in ColorStrings
    /\ pcPc = "call"
    /\ pcOut = <<>>
    /\ WrapIdle /\ LayoutIdle /\ ComposeIdle /\ ExportIdle /\ RunIdle /\ LoadIdle

\* generator.py:25-40
ColorParse ==
    /\ pcPc = "call"
    /\ pcOut' = ParseColor(pcValue)
    /\ pcPc' = IF ParseColor(pcValue).ok THEN "returned" ELSE "raised"
    /\ UNCHANGED pcValue
    /\ UNCHANGED <<wrapVars, layoutVars, composeVars, exportVars, runVars, loadVars>>

ColorNext == ColorParse

SpecColor == ColorInit /\ [][ColorNext]_vars

\* ------------------------------------------------------------------ C5
NewlineCount(text) == Cardinality({i \in 1..Len(text) : text[i] = NL})

\* a closed line respects the budget unless it is a lone character or, under
\* a negative budget, an empty line
LineWithinBudget(line) ==
    \/ TextLength(line, wFont) <= wMaxWidth
    \/ Len(line) = 1
    \/ line = <<>> /\ wMaxWidth < 0

\* C5 as stated: every returned line is within the budget, except a line of
\* one character that alone exceeds it.
C5_AsStated ==
    wPc = "done" =>
        \A i \in 1..Len(wResult) :
            \/ TextLength(wResult[i], wFont) <= wMaxWidth
            \/ Len(wResult[i]) = 1 /\ TextLength(wResult[i], wFont) > wMaxWidth

\* C5 (amended): every line of two or more characters measures at most the
\* width budget; only a one-character line may exceed it, and an empty line
\* (width 0) exceeds it exactly when the budget is negative.  The scan runs
\* one iteration per character, always has a next step until it returns,
\* and returns at least one line.
C5_WrapWithinBudget ==
    /\ wPos <= Len(wText) + 1
    /\ wPc # "done" => ENABLED WrapNext
    /\ \A i \in 1..Len(wLines) : LineWithinBudget(wLines[i])
    /\ Len(wCurrent) >= 2 => TextLength(wCurrent, wFont) <= wMaxWidth
    /\ wPc = "done" =>
          /\ Len(wResult) >= 1
          /\ wText # <<>> => wPos = Len(wText) + 1
          /\ \A i \in 1..Len(wResult) : LineWithinBudget(wResult[i])
          /\ \A i \in 1..Len(wResult) :
                Len(wResult[i]) >= 2 => TextLength(wResult[i], wFont) <= wMaxWidth

\* a finished wrap holding both a line of several characters and a lone
\* character wider than the budget
C5_Witness ==
    /\ wPc = "done"
    /\ \E i \in 1..Len(wResult) :
          Len(wResult[i]) = 1 /\ TextLength(wResult[i], wFont) > wMaxWidth
    /\ \E i \in 1..Len(wResult) : Len(wResult[i]) >= 2

\* ------------------------------------------------------------------ C6
\* C6 as stated: a text with k newline characters yields at least k + 1
\* lines.
C6_AsStated ==
    wPc = "done" => Len(wResult) >= NewlineCount(wText) + 1

\* C6 (amended): the result always has at least one line and at least as
\* many lines as the text has newline characters; it has at least k + 1
\* lines when the text does not end with a newline (a trailing newline
\* closes the last line without opening another).
C6_NewlineBreaks ==
    wPc = "done" =>
        /\ Len(wResult) >= 1
        /\ Len(wResult) >= NewlineCount(wText)
        /\ (wText = <<>> \/ wText[Len(wText)] # NL) =>
              Len(wResult) >= NewlineCount(wText) + 1

\* a text with two newlines and a last character after them, wrapped
C6_Witness ==
    /\ wPc = "done"
    /\ NewlineCount(wText) >= 2
    /\ wText[Len(wText)] # NL
    /\ Len(wResult) >= 3

\* ------------------------------------------------------------------ C3
\* the sizes base, base - 4, ... that are at least the floor
C3_Tried == {s \in Max(20, lBase \div 4)..lBase : (lBase - s) % 4 = 0}

C3_FitsAt(s) ==
    LET lay == LayoutAt(lText, s, lFontKind, lMaxWidth, lSpacing)
    IN  lay.block_height <= lMaxHeight /\ lay.max_line_width <= lMaxWidth

\* C3: shrink-to-fit tries base, base-4, ... down to floor = max(20,
\* base // 4) in that order and returns the layout of the first size whose
\* block height and widest line fit the box; when none fits it returns the
\* layout at the floor size, and overflow raises no error (only a font file
\* that cannot be loaded does).
C3_ShrinkToFit ==
    LET floor   == Max(20, lBase \div 4)
        fitting == {s \in C3_Tried : C3_FitsAt(s)}
    IN  /\ lPc = "loop" =>
              /\ lSize <= lBase /\ (lBase - lSize) % 4 = 0
              /\ \A s \in C3_Tried : s > lSize => ~C3_FitsAt(s)
        /\ lPc = "error" => lFontKind = "corrupt"
        /\ lPc = "done" =>
              IF fitting # {}
              THEN LET first == CHOOSE s \in fitting : \A t \in fitting : t <= s
                   IN  lResult = LayoutAt(lText, first, lFontKind, lMaxWidth, lSpacing)
              ELSE /\ lFellBack
                   /\ lResult = LayoutAt(lText, floor, lFontKind, lMaxWidth, lSpacing)

\* a search that shrank at least once and then returned a size that fits
C3_Witness ==
    /\ lPc = "done"
    /\ ~lFellBack
    /\ lResult.size < lBase
    /\ lResult.block_height <= lMaxHeight
    /\ lResult.max_line_width <= lMaxWidth

\* ------------------------------------------------------------------ C4
\* layouts attempted so far: the loop's, plus the fallback's
C4_Attempts == lTries + (IF lFellBack THEN 1 ELSE 0)

\* C4 as stated: at most (base - min_size)/4 + 1 layout attempts, and the
\* returned size is at least min_size.
C4_AsStated ==
    LET floor == Max(20, lBase \div 4)
    IN  lPc = "done" =>
            /\ C4_Attempts <= (lBase - floor) \div 4 + 1
            /\ lResult.size >= floor

\* C4 (amended): the loop makes at most max(0, (base - min_size) div 4 + 1)
\* layout attempts (none when base < min_size), followed by at most one more
\* layout, at min_size, when no tried size fits; every step of the loop is
\* one of these attempts, and the returned size is at least
\* min_size = max(20, base div 4).
C4_BoundedSearch ==
    LET floor == Max(20, lBase \div 4)
        bound == Max(0, (lBase - floor) \div 4 + 1)
    IN  /\ lTries <= bound
        /\ C4_Attempts <= bound + 1
        /\ lPc = "loop" => lSize = lBase - 4 * lTries
        /\ lPc = "done" => lResult.size >= floor

\* the longest search: every size of the loop tried, then the fallback
C4_Witness ==
    /\ lPc = "done"
    /\ lFellBack
    /\ lBase >= 24
    /\ lTries = (lBase - Max(20, lBase \div 4)) \div 4 + 1

\* ------------------------------------------------------------------ C7
C7_Available == cCanvas[2] - 2 * cSpec.padding

C7_Reserved ==
    IF HasArt(cSpec) THEN Trunc(C7_Available * cSpec.image_area_ratio, 100) ELSE 0

\* floor(available x 0.35)
C7_Floor35 == (C7_Available * 35) \div 100

\* C7 as stated: with art the text height is max(available - reserved,
\* floor(available x 0.35)), without art it is the full available height,
\* and it is never below floor(available x 0.35).
C7_AsStated ==
    (cPc = "done" /\ cOut.status = "ok") =>
        /\ cOut.region.text_box_height >= C7_Floor35
        /\ HasArt(cSpec) =>
              cOut.region.text_box_height =
                  Max(C7_Available - C7_Reserved, C7_Floor35)
        /\ ~HasArt(cSpec) => cOut.region.text_box_height = C7_Available

\* C7 (amended): the text height passed to shrink-to-fit is
\* max(available - reserved, int(available x 0.35)), int() rounding toward
\* zero and reserved being int(available x image_area_ratio) with art and 0
\* without.  For available >= 0 it is therefore never below 35% of the
\* available height (rounded down) and is the full available height when
\* there is no art; for available < 0 (padding above half the canvas height)
\* a sticker without art gets int(available x 0.35), not the available
\* height.
C7_TextRegionFloor ==
    (cPc = "done" /\ cOut.stage # "background") =>
        LET tbh == cOut.region.text_box_height
            cap == Trunc(C7_Available * 35, 100)
        IN  /\ cOut.region.available_height = C7_Available
            /\ tbh >= cap
            /\ tbh = Max(C7_Available - C7_Reserved, cap)
            /\ C7_Available >= 0 => tbh >= C7_Floor35
            /\ (C7_Available >= 0 /\ ~HasArt(cSpec)) => tbh = C7_Available
            /\ (C7_Available < 0 /\ ~HasArt(cSpec)) => tbh = cap

\* image_area_ratio 0.95 with a long multi-line text: the cap, not the raw
\* ratio, decides the split
C7_Witness ==
    /\ cPc = "done"
    /\ cOut.status = "ok"
    /\ HasArt(cSpec)
    /\ cSpec.image_area_ratio = 95
    /\ Len(cSpec.text) > 2
    /\ C7_Available > 0
    /\ cOut.region.text_box_height = C7_Floor35
    /\ cOut.region.text_box_height > C7_Available - C7_Reserved

\* ------------------------------------------------------------------ C8
\* C8: at most one art source is used per sticker: with an image reference
\* set, only the image is loaded (and placed) and the illustration renderer
\* is not invoked, even when an illustration is enabled; the illustration is
\* rendered only when no image reference is set and it is enabled; otherwise
\* no art is obtained or placed.
C8_OneArtSource ==
    cPc = "done" =>
        LET art     == cOut.art
            reached == cOut.stage \in {"art", "composite", "done"}
        IN  /\ art.image_loads + art.illustration_renders <= 1
            /\ Truthy(cSpec.image_path) =>
                  /\ art.illustration_renders = 0
                  /\ reached => art.source = "image"
                  /\ cOut.status = "ok" => art.image_loads = 1
            /\ art.illustration_renders = 1 =>
                  ~Truthy(cSpec.image_path) /\ IllustrationOn(cSpec)
            /\ (reached /\ ~Truthy(cSpec.image_path) /\ IllustrationOn(cSpec)) =>
                  art.source = "illustration" /\ art.illustration_renders = 1
            /\ (~Truthy(cSpec.image_path) /\ ~IllustrationOn(cSpec)) =>
                  art.source = "none" /\ ~cOut.place.placed
            /\ cOut.place.placed => art.source # "none" /\ art.status = "ok"

\* a sticker with both an image and an enabled illustration, composed with
\* the image placed
C8_Witness ==
    /\ cPc = "done"
    /\ cOut.status = "ok"
    /\ cSpec.image_path = "ok"
    /\ IllustrationOn(cSpec)
    /\ cOut.art.source = "image"
    /\ cOut.art.illustration_renders = 0
    /\ cOut.place.placed

\* ------------------------------------------------------------------ C1
Categories == {"main", "tab", "store"}

C1_Size(category) ==
    CASE category = "main"  -> config.main_size
      [] category = "tab"   -> config.tab_size
      [] category = "store" -> config.store_size

C1_Positive(category) == C1_Size(category)[1] > 0 /\ C1_Size(category)[2] > 0

\* {category}/{slug}_{category}.png
C1_File(category, slug) == [dir |-> category, slug |-> slug, suffix |-> category]

\* C1 as stated: after generate_all completes without error, every sticker
\* has its three files main/{slug}_main.png, tab/{slug}_tab.png and
\* store/{slug}_store.png.
C1_AsStated ==
    rPc = "done" =>
        \A k \in 1..Len(config.stickers) : \A c \in Categories :
            C1_File(c, EnsureSlug(config.stickers[k], k)) \in DOMAIN files

\* C1 (amended): after generate_all completes without error, every sticker
\* has the file {category}/{slug}_{category}.png for each category (main,
\* tab, store) whose configured size has both dimensions positive; for a
\* category whose size has a dimension <= 0 the export is skipped and no
\* file is written.  The slug is the explicit slug, else the slug derived
\* from the text, else stamp_NN when that is empty.
C1_ExportedTriples ==
    rPc = "done" =>
        /\ \A k \in 1..Len(config.stickers) : \A c \in Categories :
              C1_Positive(c) =>
                  C1_File(c, EnsureSlug(config.stickers[k], k)) \in DOMAIN files
        /\ \A c \in Categories :
              ~C1_Positive(c) => \A f \in DOMAIN files : f.dir # c

\* a completed run with the sticker "Hi": main/hi_main.png, tab/hi_tab.png
\* and store/hi_store.png are there
C1_Witness ==
    /\ rPc = "done"
    /\ Len(config.stickers) >= 1
    /\ config.stickers[1].text = <<"H", "i">>
    /\ config.stickers[1].slug = <<>>
    /\ \A c \in Categories : C1_File(c, <<"h", "i">>) \in DOMAIN files

\* ------------------------------------------------------------------ C2
\* |source ratio - target ratio| against 0.01, cross-multiplied
C2_Gap == Abs(eSource[1] * eTarget[2] - eTarget[1] * eSource[2]) * 100
C2_Unit == eSource[2] * eTarget[2]

C9_AbortOnFirstError ==
    rFailedAt # 0 =>
        /\ rPc = "aborted"
        /\ files = rFilesAtFailure
        /\ SetIconPath \notin DOMAIN files
        /\ \A f \in DOMAIN files : files[f].sticker < rFailedAt
        /\ \A j \in 1..(rFailedAt - 1) : \A c \in Categories :
              C1_Positive(c) =>
                  C1_File(c, EnsureSlug(config.stickers[j], j)) \in DOMAIN files

\* the second sticker failed after the first was exported
C9_Witness ==
    /\ rPc = "aborted"
    /\ rFailedAt = 2
    /\ Len(config.stickers) = 2
    /\ config.set_icon_text # <<>>
    /\ \E f \in DOMAIN files : files[f].sticker = 1

\* ----------------------------------------------------------------- C10
\* the last sticker of the configuration that resolves to the slug
C10_Last(slug) ==
    CHOOSE k \in 1..Len(config.stickers) :
        /\ EnsureSlug(config.stickers[k], k) = slug
        /\ \A j \in 1..Len(config.stickers) :
              EnsureSlug(config.stickers[j], j) = slug => j <= k

C10_Collides(j, k) ==
    /\ j < k
    /\ EnsureSlug(config.stickers[j], j) = EnsureSlug(config.stickers[k], k)

\* C10 as stated: when two stickers resolve to the same slug the run ends
\* without error and each of the three files of that slug holds the export
\* of the later sticker.
C10_AsStated ==
    (rIndex > Len(config.stickers) /\ rFailedAt = 0) =>
        \A j, k \in 1..Len(config.stickers) :
            C10_Collides(j, k) =>
                LET slug == EnsureSlug(config.stickers[k], k)
                IN  \A c \in Categories :
                        /\ C1_File(c, slug) \in DOMAIN files
                        /\ files[C1_File(c, slug)].sticker = C10_Last(slug)

\* C10 (amended): when two stickers resolve to the same slug, no error is
\* raised for it and no output is renamed: once the stickers are exported,
\* for each category whose configured size has both dimensions positive the
\* one file {category}/{slug}_{category}.png holds the export of the last
\* sticker with that slug, the earlier export having been overwritten (a
\* category with a dimension <= 0 has no file at all).
C10_LaterOverwrites ==
    (rIndex > Len(config.stickers) /\ rFailedAt = 0) =>
        /\ \A j, k \in 1..Len(config.stickers) :
              C10_Collides(j, k) =>
                  LET slug == EnsureSlug(config.stickers[k], k)
                  IN  \A c \in Categories :
                          C1_Positive(c) =>
                              /\ C1_File(c, slug) \in DOMAIN files
                              /\ files[C1_File(c, slug)].sticker = C10_Last(slug)
        /\ \A f \in DOMAIN files :
              f = SetIconPath \/
              \E k \in 1..Len(config.stickers) :
                  f = C1_File(f.dir, EnsureSlug(config.stickers[k], k))

\* "Hi" then "hi!": both resolve to hi, and main/hi_main.png is the second's
C10_Witness ==
    /\ rPc = "done"
    /\ Len(config.stickers) = 2
    /\ config.stickers[1].text # config.stickers[2].text
    /\ C10_Collides(1, 2)
    /\ files[C1_File("main", <<"h", "i">>)].sticker = 2

\* ------------------------------------------------------------------ C11
\* the side of the set icon: the larger store dimension
C11_Side == Max(config.store_size[1], config.store_size[2])

\* C11: in any run set_icon/set_icon.png is saved at most once, and only
\* when set-icon text is configured (never when set_icon_text is absent or
\* empty, nor when --disable-set-icon cleared it); when it is saved, every
\* sticker has been exported before it and no sticker export follows, and
\* the saved image is the square whose side is the store size (the larger
\* store dimension).
C11_SetIconOnce ==
    /\ rIconSaves <= 1
    /\ (rIconSaves = 1) = (SetIconPath \in DOMAIN files)
    /\ SetIconPath \in DOMAIN files =>
          /\ config.set_icon_text # <<>>
          /\ ~args.disable_set_icon
          /\ rPc = "done"
          /\ rIndex = Len(config.stickers) + 1
          /\ \A k \in 1..Len(config.stickers) : \A c \in Categories :
                C1_Positive(c) =>
                    C1_File(c, EnsureSlug(config.stickers[k], k)) \in DOMAIN files
          /\ files[SetIconPath].image.size = <<C11_Side, C11_Side>>
    /\ (args.disable_set_icon \/ config.set_icon_text = <<>>) =>
          \A f \in DOMAIN files : f.dir # "set_icon"

\* a run of two stickers whose store exports are skipped (store_size
\* (240, -1)), with --set-icon-text H: the 240 x 240 set icon is saved once,
\* after the main and tab exports of both stickers
C11_Witness ==
    /\ rPc = "done"
    /\ rIconSaves = 1
    /\ Len(config.stickers) = 2
    /\ args.set_icon_text = << <<"H">> >>
    /\ config.store_size = <<240, -1>>
    /\ SetIconPath \in DOMAIN files
    /\ files[SetIconPath].image.size = <<240, 240>>
    /\ Cardinality(DOMAIN files) >= 3

\* ------------------------------------------------------------------ C12
C12_Sizes == <<ldOut.config.main_size, ldOut.config.tab_size, ldOut.config.store_size>>

C12_IntPair(size) == Len(size) = 2 /\ size[1] \in Int /\ size[2] \in Int

C12_Clamped ==
    /\ ldOut.config.scale_multiplier >= MinScale
    /\ ldOut.config.font_size >= MinFontSize
    /\ \A k \in 1..Len(ldOut.config.stickers) :
          /\ ldOut.config.stickers[k].image_area_ratio \in MinAreaRatio..MaxAreaRatio
          /\ ldOut.config.stickers[k].line_spacing \in MinLineSpacing..MaxLineSpacing

C13_WellFormed(value) ==
    /\ Len(value) \in {4, 7, 9}
    /\ value[1] = "#"
    /\ \A i \in 2..Len(value) : IsHex(value[i])

\* the channels the claim gives a well-formed string: each digit of the
\* 3-digit form duplicated, alpha FF unless the 8-digit form gives it
C13_Channels(value) ==
    LET h(i) == HexValue(value[i])
    IN  CASE Len(value) = 4 -> <<17 * h(2), 17 * h(3), 17 * h(4), 255>>
          [] Len(value) = 7 -> <<16 * h(2) + h(3), 16 * h(4) + h(5),
                                 16 * h(6) + h(7), 255>>
          [] Len(value) = 9 -> <<16 * h(2) + h(3), 16 * h(4) + h(5),
                                 16 * h(6) + h(7), 16 * h(8) + h(9)>>

\* the part of C13 the code keeps: a well-formed string is accepted with
\* the channels above
C13_WellFormedAccepted ==
    (pcPc # "call" /\ C13_WellFormed(pcValue)) =>
        pcPc = "returned" /\ pcOut.rgba = C13_Channels(pcValue)

\* C13 as stated: _parse_color accepts exactly the strings made of '#'
\* followed by 3, 6 or 8 hex digits, with #RGB = #RRGGBB = #RRGGBBFF, and
\* every other input fails with an error instead of returning a colour.
C13_AsStated ==
    /\ C13_WellFormedAccepted
    /\ (pcPc # "call" /\ ~C13_WellFormed(pcValue)) => pcPc = "raised"

\* ------------------------------------------------------------------ C14
\* C14 as stated, the tolerance of 1% read as the 0.01 of the code: a plain
\* resize is used if and only if the source and target aspect ratios differ
\* by at most 0.01, and center-crop-and-fit in every other case.
C14_AsStated ==
    ePc = "done" =>
        /\ eOut.method \in {"resize", "fit"}
        /\ (eOut.method = "resize") = (C2_Gap <= C2_Unit)

\* C14 (amended): for each export a plain resize to the target size is used
\* when the aspect ratios width/height of source and target differ by less
\* than 0.01, and center-crop-and-fit when they differ by more than 0.01;
\* when they differ by exactly 0.01 the rounding of the floating-point
\* subtraction decides, and either may be used.
C14_ResizeChoice ==
    ePc = "done" =>
        /\ eOut.method \in {"resize", "fit"}
        /\ C2_Gap # C2_Unit => (eOut.method = "resize") = (C2_Gap < C2_Unit)
        /\ C2_Gap = C2_Unit => (eOut.method = "resize") = eTie

\* a 300 x 299 image exported to 240 x 240: the ratios differ by 1/299, and
\* the whole image is resized
C14_Witness ==
    /\ ePc = "done"
    /\ eSource = <<300, 299>>
    /\ eTarget = <<240, 240>>
    /\ C2_Gap > 0 /\ C2_Gap < C2_Unit
    /\ eOut.method = "resize"

\* ------------------------------------------------------------------ C15
\* the height below the text block and above the bottom margin
C15_Remaining ==
    cCanvas[2] - cOut.text_bottom - cSpec.padding - cSpec.image_bottom_margin

\* C15: whenever art is placed on a sticker it is no larger than its
\* original and fits within (text width, remaining height); it lies
\* horizontally inside the text column [padding, padding + available
\* width]; its bottom edge is at canvas height - padding - bottom_margin and
\* its top edge at or below the bottom of the text block, so it does not
\* overlap the text; and when the remaining height is <= 0 no art is placed.
C15_ArtPlacement ==
    (cPc = "done" /\ cOut.status = "ok") =>
        LET place == cOut.place
            width == cOut.region.available_width
        IN  /\ place.placed =>
                  /\ cOut.art.source # "none"
                  /\ place.size[1] >= 1 /\ place.size[2] >= 1
                  /\ place.size[1] <= cOut.art.size[1]
                  /\ place.size[2] <= cOut.art.size[2]
                  /\ place.size[1] <= width
                  /\ place.size[2] <= C15_Remaining
                  /\ (cOut.art.size[1] <= width /\ cOut.art.size[2] <= C15_Remaining)
                        => place.size = cOut.art.size
                  /\ place.x_pos >= cSpec.padding
                  /\ place.x_pos + place.size[1] <= cSpec.padding + width
                  /\ place.y_pos + place.size[2] =
                        cCanvas[2] - cSpec.padding - cSpec.image_bottom_margin
                  /\ place.y_pos >= cOut.text_bottom
            /\ C15_Remaining <= 0 => ~place.placed
            /\ (C15_Remaining > 0 /\ cOut.art.source # "none") => place.placed

\* a 400 x 300 image under a four-line text on the 1480 x 1280 canvas: it
\* is scaled down and placed below the text block
C15_Witness ==
    /\ cPc = "done"
    /\ cOut.status = "ok"
    /\ cCanvas = <<1480, 1280>>
    /\ Len(cOut.layout.lines) = 4
    /\ cOut.art.source = "image"
    /\ cOut.art.size = <<400, 300>>
    /\ cOut.place.placed
    /\ cOut.place.size[2] < 300
    /\ cOut.place.y_pos >= cOut.text_bottom
    /\ cOut.text_bottom > cSpec.padding

\* ------------------------------------------------------------------ C16
\* the text with its newline characters removed
RECURSIVE C16_WithoutNewlines(_)
C16_WithoutNewlines(text) ==
    IF text = <<>> THEN <<>>
    ELSE IF Head(text) = NL THEN C16_WithoutNewlines(Tail(text))
    ELSE <<Head(text)>> \o C16_WithoutNewlines(Tail(text))

\* C16: wrapping loses, duplicates and reorders no character: the lines
\* _wrap_text returns, concatenated in order, are the input text with its
\* newline characters removed, and no line contains a newline.  During the
\* scan the same holds of the lines closed so far, followed by the current
\* line, for the characters already read.
C16_WrapKeepsCharacters ==
    /\ wPc = "done" =>
          /\ Flatten(wResult) = C16_WithoutNewlines(wText)
          /\ \A k \in 1..Len(wResult) :
                \A i \in 1..Len(wResult[k]) : wResult[k][i] # NL
    /\ wPc = "scan" =>
          Flatten(wLines) \o wCurrent =
              C16_WithoutNewlines(SubSeq(wText, 1, wPos - 1))

\* "HH\n" in a 12 pixel budget at size 20: the second H is wrapped and the
\* newline closes its line; the two lines give back "HH"
C16_Witness ==
    /\ wPc = "done"
    /\ wText = <<"H", "H", NL>>
    /\ wMaxWidth = 12
    /\ wResult = << <<"H">>, <<"H">> >>

====
